---- MODULE Spec2Model ----
(* Model of rust-vulkan/src/main.rs: the start-up pipeline of HelloTriangleApp *)
(* (instance, debug callback, physical-device selection, logical device,      *)
(* window), its event loop and the drop of the application value.             *)
EXTENDS Integers, Sequences, FiniteSets, TLC

(* ---------------------------------------------------------------- bounds *)
MaxDevices == 3
MaxFamilies == 2
RunDevices == 1
RunFamilies == 1
MaxBatch == 2
MaxPolls == 2
MaxMessages == 1

(* ------------------------------------------------------------- constants *)
WIDTH == 800
HEIGHT == 600
NOT_INITIALIZED == -1
VALIDATION_LAYERS == {"VK_LAYER_LUNARG_standard_validation"}

(* Layers a driver installation may report (layers_list()). *)
KnownLayers == VALIDATION_LAYERS \cup {"VK_LAYER_LUNARG_api_dump"}
(* Extensions vulkano_win::required_extensions() asks for. *)
WindowExtensions == {"khr_surface"}
(* Platform events, as far as the closure of main_loop tells them apart. *)
EventKinds == {"CloseRequested", "Resized", "DeviceEvent"}
(* Message categories of the driver's debug report. *)
MessageKinds == {"error", "warning", "performance_warning", "information", "debug"}

(* Option<T>: None is the empty sequence, Some(x) the one-element sequence. *)
None == <<>>
Some(x) == <<x>>
IsSome(o) == Len(o) = 1
Unwrap(o) == o[1]

(* Sequences over S of length 0..n. *)
SeqUpTo(S, n) == UNION {[1..k -> S] : k \in 0..n}

(* The largest i32, which is also the largest integer TLC computes with. *)
I32_MAX == 2147483647

(* i as i32, for a usize i: unchanged up to I32_MAX, wrapped beyond it. *)
AsI32(i) == IF i <= I32_MAX THEN i ELSE (i - I32_MAX) - I32_MAX - 2

(* i as usize, for an i32 i: unchanged when i >= 0; a negative i sign-extends *)
(* to 2^64 + i, beyond every queue-family count (a u32). I32_MAX + 1 + i      *)
(* stands for that value: -1 becomes the largest index there is.              *)
AsUsize(i) == IF i >= 0 THEN i ELSE (I32_MAX + i) + 1

VARIABLES
  ENABLE_VALIDATION_LAYERS, \* the build: debug_assertions on or off
  availableLayers,          \* what layers_list() reports
  devices,                  \* PhysicalDevice::enumerate: per device, per family, supports_graphics()
  pc,                       \* position of main()
  instance, debug_callback, physical_device_index, device, graphics_queue, events_loop,
  callbackReply,            \* the driver's answer to DebugCallback::new, "not_asked" without one
  window,                   \* "none", "open" or "closed"
  arcs,                     \* strong counts of the Arc<Instance>, Arc<Device>, Arc<Queue>
  released,                 \* driver and platform objects destroyed so far, in order
  dropped,                  \* number of fields of the application value dropped so far
  loopState, pollSteps, eventsSeen, closesSeen,
  output,                   \* lines printed
  messages,                 \* number of messages the driver has emitted
  scans,                    \* the calls of find_queue_families so far
  calls,                    \* how often each start-up stage has been entered
  panic                     \* the panic that ended the process, if any

vars == <<ENABLE_VALIDATION_LAYERS, availableLayers, devices, pc, instance, debug_callback,
          physical_device_index, device, graphics_queue, events_loop, callbackReply, window,
          arcs, released, dropped, loopState, pollSteps, eventsSeen, closesSeen, output,
          messages, scans, calls, panic>>

(* What the build and the machine fix for the whole run. *)
Build == <<ENABLE_VALIDATION_LAYERS, availableLayers, devices>>

Stages == <<"init_instance", "setup_debug_callback", "get_physical_device_index",
            "create_logical_device", "init_window">>

StageNo(s) == CHOOSE k \in 1..Len(Stages) : Stages[k] = s

(* init with the window opened before the logical device is built. *)
StageAfter_window_early(stage) ==
  CASE stage = "init_instance" -> "setup_debug_callback"
    [] stage = "setup_debug_callback" -> "get_physical_device_index"
    [] stage = "get_physical_device_index" -> "init_window"
    [] stage = "init_window" -> "create_logical_device"
    [] OTHER -> "main_loop"

(* Where main() goes when `stage` has returned: the next statement of init, *)
(* and app.main_loop() after the last one.                                  *)
StageAfter(stage) ==
  IF StageNo(stage) < Len(Stages) THEN Stages[StageNo(stage) + 1] ELSE "main_loop"

(* ------------------------------------------------- QueueFamilyIndices *)
QueueFamilyIndices_new == [graphics_family |-> NOT_INITIALIZED]

is_complete(indices) == indices.graphics_family # NOT_INITIALIZED

(* The for loop of find_queue_families from family i on (0-based). trace has *)
(* one entry per family examined: its index and graphics_family after it.    *)
RECURSIVE ScanFrom(_, _, _, _)
ScanFrom(families, i, indices, trace) ==
  IF i >= Len(families) THEN [indices |-> indices, trace |-> trace]
  ELSE LET ind1 == IF families[i + 1] THEN [indices EXCEPT !.graphics_family = AsI32(i)]
                   ELSE indices
           tr1 == Append(trace, [i |-> i, graphics_family |-> ind1.graphics_family])
       IN IF is_complete(ind1) THEN [indices |-> ind1, trace |-> tr1]
          ELSE ScanFrom(families, i + 1, ind1, tr1)

(* The same loop without the break. *)
RECURSIVE ScanAllFrom(_, _, _, _)
ScanAllFrom(families, i, indices, trace) ==
  IF i >= Len(families) THEN [indices |-> indices, trace |-> trace]
  ELSE LET ind1 == IF families[i + 1] THEN [indices EXCEPT !.graphics_family = AsI32(i)]
                   ELSE indices
           tr1 == Append(trace, [i |-> i, graphics_family |-> ind1.graphics_family])
       IN ScanAllFrom(families, i + 1, ind1, tr1)

find_queue_families_no_break(families) ==
  ScanAllFrom(families, 0, QueueFamilyIndices_new, <<>>)

find_queue_families(families) ==
  ScanFrom(families, 0, QueueFamilyIndices_new, <<>>)

is_physical_device_suitable_any(families) == TRUE

is_physical_device_suitable(families) ==
  is_complete(find_queue_families(families).indices)

(* Iterator::find over PhysicalDevice::enumerate from device i on (0-based): *)
(* the index found, if any, and the scans made on the way.                   *)
RECURSIVE FindFrom(_, _, _)
FindFrom(ds, i, log) ==
  IF i >= Len(ds) THEN [found |-> None, scans |-> log]
  ELSE LET scan == find_queue_families(ds[i + 1])
           log1 == Append(log, [device |-> i, stage |-> "get_physical_device_index",
                                graphics_family |-> scan.indices.graphics_family,
                                trace |-> scan.trace])
       IN IF is_physical_device_suitable(ds[i + 1])
          THEN [found |-> Some(i), scans |-> log1]
          ELSE FindFrom(ds, i + 1, log1)

(* The same search keeping the last suitable device instead of the first. *)
RECURSIVE FindLastFrom(_, _, _, _)
FindLastFrom(ds, i, log, best) ==
  IF i >= Len(ds) THEN [found |-> best, scans |-> log]
  ELSE LET scan == find_queue_families(ds[i + 1])
           log1 == Append(log, [device |-> i, stage |-> "get_physical_device_index",
                                graphics_family |-> scan.indices.graphics_family,
                                trace |-> scan.trace])
       IN FindLastFrom(ds, i + 1, log1,
                       IF is_physical_device_suitable(ds[i + 1]) THEN Some(i) ELSE best)

find_suitable_last(ds) == FindLastFrom(ds, 0, <<>>, None)

(* PhysicalDevice::enumerate(&instance).find(|device| is_physical_device_suitable(device)) *)
find_suitable(ds) == FindFrom(ds, 0, <<>>)

(* PhysicalDevice::from_index *)
from_index(ds, index) == IF index < Len(ds) THEN Some(ds[index + 1]) ELSE None

(* The lookup taking family 0 whatever the scan found. *)
get_graphics_family_first(families) == IF Len(families) > 0 THEN Some(0) ELSE None

(* queue_families().nth(indices.graphics_family as usize) *)
get_graphics_family_from_physical_device(families) ==
  LET indices == find_queue_families(families).indices
      n == AsUsize(indices.graphics_family)
  IN IF n < Len(families) THEN Some(n) ELSE None

(* ------------------------------------------------------------ instance *)
check_validation_layer_support(layers) ==
  \A layer_name \in VALIDATION_LAYERS : layer_name \in layers

get_required_extensions ==
  IF ENABLE_VALIDATION_LAYERS THEN WindowExtensions \cup {"ext_debug_report"}
  ELSE WindowExtensions

(* The layers init_instance hands to Instance::new. *)
instance_layers_unchecked == IF ENABLE_VALIDATION_LAYERS THEN VALIDATION_LAYERS ELSE {}

instance_layers ==
  IF ENABLE_VALIDATION_LAYERS /\ check_validation_layer_support(availableLayers)
  THEN VALIDATION_LAYERS ELSE {}

(* Instance::new: the driver refuses a layer it does not have, and may refuse *)
(* for reasons of its own (driverOk).                                         *)
Instance_new(extensions, layers, driverOk) ==
  IF ~(layers \subseteq availableLayers) THEN [ok |-> FALSE, err |-> "LayerNotPresent"]
  ELSE IF ~driverOk THEN [ok |-> FALSE, err |-> "InitializationFailed"]
  ELSE [ok |-> TRUE, err |-> ""]

(* ------------------------------------------------------- debug callback *)
msg_types == [error |-> TRUE, warning |-> TRUE, performance_warning |-> TRUE,
              information |-> FALSE, debug |-> TRUE]

(* DebugCallback::new(..).ok(), behind the early return of setup_debug_callback. *)
debug_callback_unconditional(accepted) ==
  IF accepted THEN Some([msg_types |-> msg_types]) ELSE None

debug_callback_kept_on_error(accepted) ==
  IF ~ENABLE_VALIDATION_LAYERS THEN None ELSE Some([msg_types |-> msg_types])

debug_callback_result(accepted) ==
  IF ~ENABLE_VALIDATION_LAYERS THEN None
  ELSE IF accepted THEN Some([msg_types |-> msg_types]) ELSE None

(* ------------------------------------------------------------ ownership *)
(* Arc<T>: the value is destroyed by the drop of its last strong reference. *)
LastOwner_any(count) == TRUE

LastOwner(count) == count = 1

Destroy(st, what) == [st EXCEPT !.released = Append(@, what)]

DropArcInstance(st) ==
  LET s1 == [st EXCEPT !.arcs.Instance = @ - 1]
  IN IF LastOwner(st.arcs.Instance) THEN Destroy(s1, "Instance") ELSE s1

(* A DebugCallback and a Device each hold an Arc<Instance>, a Queue its Arc<Device>. *)
DropDebugCallback(st) == DropArcInstance(Destroy(st, "DebugCallback"))

DropArcDevice(st) ==
  LET s1 == [st EXCEPT !.arcs.Device = @ - 1]
  IN IF LastOwner(st.arcs.Device) THEN DropArcInstance(Destroy(s1, "Device")) ELSE s1

DropArcQueue(st) ==
  LET s1 == [st EXCEPT !.arcs.Queue = @ - 1]
  IN IF LastOwner(st.arcs.Queue) THEN DropArcDevice(Destroy(s1, "Queue")) ELSE s1

(* The fields of HelloTriangleApp in declaration order, the order of their drop. *)
FieldOrder == <<"instance", "debug_callback", "physical_device_index", "device",
                "graphics_queue", "events_loop">>

(* The locals of init in reverse order of declaration, the order of unwinding. *)
UnwindOrder == <<"events_loop", "graphics_queue", "device", "physical_device_index",
                 "debug_callback", "instance">>

DropField(st, f) ==
  CASE f = "instance" -> IF IsSome(instance) THEN DropArcInstance(st) ELSE st
    [] f = "debug_callback" -> IF IsSome(debug_callback) THEN DropDebugCallback(st) ELSE st
    [] f = "physical_device_index" -> st
    [] f = "device" -> IF IsSome(device) THEN DropArcDevice(st) ELSE st
    [] f = "graphics_queue" -> IF IsSome(graphics_queue) THEN DropArcQueue(st) ELSE st
    [] f = "events_loop" -> IF IsSome(events_loop) THEN Destroy(st, "EventsLoop") ELSE st

RECURSIVE DropSeq(_, _)
DropSeq(st, fields) ==
  IF fields = <<>> THEN st ELSE DropSeq(DropField(st, Head(fields)), Tail(fields))

(* ---------------------------------------------------------------- panics *)
(* Result::expect / Option::expect / unwrap: go on when ok, panic otherwise. *)
expect_ignored(ok, next) == next

expect(ok, next) == IF ok THEN next ELSE "panicked"

(* A panic in `stage`: the message is recorded and the locals of init made *)
(* so far are dropped by unwinding.                                         *)
Panics(stage, msg, err) ==
  LET st == DropSeq([arcs |-> arcs, released |-> released], UnwindOrder)
  IN /\ panic' = Some([stage |-> stage, msg |-> msg, err |-> err])
     /\ arcs' = st.arcs
     /\ released' = st.released

EnterStage(stage) == calls' = [calls EXCEPT ![stage] = @ + 1]

(* ------------------------------------------------------------------ Init *)
Devices(nd, nf) == SeqUpTo(SeqUpTo(BOOLEAN, nf), nd)

InitWith(builds, layerLists, enumerations) ==
  /\ ENABLE_VALIDATION_LAYERS \in builds
  /\ availableLayers \in layerLists
  /\ devices \in enumerations
  /\ pc = "init_instance"
  /\ instance = None /\ debug_callback = None /\ physical_device_index = None
  /\ device = None /\ graphics_queue = None /\ events_loop = None
  /\ callbackReply = "not_asked"
  /\ window = "none"
  /\ arcs = [Instance |-> 0, Device |-> 0, Queue |-> 0]
  /\ released = <<>>
  /\ dropped = 0
  /\ loopState = "NotStarted" /\ pollSteps = 0 /\ eventsSeen = 0 /\ closesSeen = 0
  /\ output = <<>>
  /\ messages = 0
  /\ scans = <<>>
  /\ calls = [s \in {Stages[k] : k \in 1..Len(Stages)} |-> 0]
  /\ panic = None

(* Every build and every list of layers, on the smaller enumerations. *)
Init == InitWith(BOOLEAN, SUBSET KnownLayers, Devices(RunDevices, RunFamilies))

(* The release build on a machine without layers, on the larger enumerations. *)
InitDevices == InitWith({FALSE}, {{}}, Devices(MaxDevices, MaxFamilies))

(* --------------------------------------------------------------- actions *)
init_instance ==
  /\ pc = "init_instance"
  /\ EnterStage("init_instance")
  /\ \E extQueryOk, layersListOk, driverOk \in BOOLEAN :
       LET listed == ~ENABLE_VALIDATION_LAYERS \/ layersListOk
           layers == instance_layers
           result == Instance_new(get_required_extensions, layers, driverOk)
           ok == extQueryOk /\ listed /\ result.ok
       IN /\ pc' = expect(ok, StageAfter("init_instance"))
          /\ output' = IF extQueryOk THEN Append(output, "Supported extension") ELSE output
          /\ IF ok
             THEN /\ instance' = Some([extensions |-> get_required_extensions,
                                       layers |-> layers])
                  /\ arcs' = [arcs EXCEPT !.Instance = 1]
                  /\ UNCHANGED <<released, panic>>
             ELSE /\ UNCHANGED instance
                  /\ IF ~extQueryOk
                     THEN Panics("init_instance", "failed to retrieve supported extensions",
                                 "LoadingError")
                     ELSE IF ~listed
                     THEN Panics("init_instance", "called Result::unwrap() on an Err value",
                                 "LayersListError")
                     ELSE Panics("init_instance", "failed to create Vulkan instance", result.err)
  /\ UNCHANGED <<Build, debug_callback, callbackReply,
                 physical_device_index, device, graphics_queue, events_loop, window, dropped,
                 loopState, pollSteps, eventsSeen, closesSeen, messages, scans>>

setup_debug_callback ==
  /\ pc = "setup_debug_callback"
  /\ EnterStage("setup_debug_callback")
  /\ \E accepted \in BOOLEAN :
       LET callback == debug_callback_result(accepted)
       IN /\ debug_callback' = callback
          /\ callbackReply' = IF ~ENABLE_VALIDATION_LAYERS THEN "not_asked"
                              ELSE IF accepted THEN "accepted" ELSE "rejected"
          /\ arcs' = IF IsSome(callback) THEN [arcs EXCEPT !.Instance = @ + 1] ELSE arcs
  /\ pc' = StageAfter("setup_debug_callback")
  /\ UNCHANGED <<Build, instance,
                 physical_device_index, device, graphics_queue, events_loop, window, released,
                 dropped, loopState, pollSteps, eventsSeen, closesSeen, output, messages, scans,
                 panic>>

get_physical_device_index ==
  /\ pc = "get_physical_device_index"
  /\ EnterStage("get_physical_device_index")
  /\ LET r == find_suitable(devices)
         ok == IsSome(r.found)
     IN /\ scans' = scans \o r.scans
        /\ pc' = expect(ok, StageAfter("get_physical_device_index"))
        /\ IF ok
           THEN /\ physical_device_index' = r.found
                /\ output' = Append(output, "Using device")
                /\ UNCHANGED <<arcs, released, panic>>
           ELSE /\ UNCHANGED <<physical_device_index, output>>
                /\ Panics("get_physical_device_index", "failed to find a suitable GPU!",
                          "None")
  /\ UNCHANGED <<Build, instance, debug_callback, callbackReply,
                 device, graphics_queue, events_loop, window, dropped, loopState, pollSteps,
                 eventsSeen, closesSeen, messages>>

create_logical_device ==
  /\ pc = "create_logical_device"
  /\ EnterStage("create_logical_device")
  /\ \E driverOk \in BOOLEAN :
       LET physical_device == IF IsSome(physical_device_index)
                              THEN from_index(devices, Unwrap(physical_device_index))
                              ELSE None
           resolved == IsSome(physical_device)
           graphics_family == IF resolved
                              THEN get_graphics_family_from_physical_device(
                                     Unwrap(physical_device))
                              ELSE None
           scan == find_queue_families(Unwrap(physical_device))
           ok == resolved /\ IsSome(graphics_family) /\ driverOk
       IN /\ scans' = IF resolved
                      THEN Append(scans, [device |-> Unwrap(physical_device_index),
                                          stage |-> "create_logical_device",
                                          graphics_family |-> scan.indices.graphics_family,
                                          trace |-> scan.trace])
                      ELSE scans
          /\ pc' = expect(ok, StageAfter("create_logical_device"))
          /\ IF ok
             THEN /\ device' = Some([physical_device |-> Unwrap(physical_device_index),
                                     queue_family |-> Unwrap(graphics_family)])
                  /\ graphics_queue' = Some([family |-> Unwrap(graphics_family), id |-> 0])
                  /\ arcs' = [arcs EXCEPT !.Instance = @ + 1, !.Device = 2, !.Queue = 1]
                  /\ UNCHANGED <<released, panic>>
             ELSE /\ UNCHANGED <<device, graphics_queue>>
                  /\ IF resolved /\ IsSome(graphics_family)
                     THEN Panics("create_logical_device", "Couldn't build logical device!",
                                 "DeviceCreationError")
                     ELSE Panics("create_logical_device",
                                 "called Option::unwrap() on a None value", "None")
  /\ UNCHANGED <<Build, instance, debug_callback, callbackReply,
                 physical_device_index, events_loop, window, dropped, loopState, pollSteps,
                 eventsSeen, closesSeen, output, messages>>

(* init_window, and with its return the start of main_loop. _window_builder *)
(* is a local of init_window: the window it holds is dropped at the return. *)
init_window ==
  /\ pc = "init_window"
  /\ EnterStage("init_window")
  /\ \E built \in BOOLEAN :
       /\ pc' = expect(built, StageAfter("init_window"))
       /\ IF built
          THEN /\ events_loop' = Some([polled |-> 0])
               /\ window' = "closed"
               /\ released' = Append(released, "Window")
               /\ loopState' = "Running"
               /\ UNCHANGED <<arcs, panic>>
          ELSE /\ UNCHANGED <<events_loop, window, loopState>>
               /\ LET st == DropSeq([arcs |-> arcs,
                                     released |-> Append(released, "EventsLoop")],
                                    UnwindOrder)
                  IN /\ panic' = Some([stage |-> "init_window",
                                       msg |-> "called Result::unwrap() on an Err value",
                                       err |-> "CreationError"])
                     /\ arcs' = st.arcs
                     /\ released' = st.released
  /\ UNCHANGED <<Build, instance, debug_callback, callbackReply,
                 physical_device_index, device, graphics_queue, dropped, pollSteps, eventsSeen,
                 closesSeen, output, messages, scans>>

(* events_loop.poll_events(closure) on the pending events: done afterwards. *)
RECURSIVE PollFrom(_, _)
PollFrom(batch, done) ==
  IF batch = <<>> THEN done
  ELSE PollFrom(Tail(batch), IF Head(batch) = "CloseRequested" THEN TRUE ELSE done)

(* The closure assigning done from every event, so that the last one decides. *)
poll_events_last_decides(batch) ==
  batch # <<>> /\ batch[Len(batch)] = "CloseRequested"

(* The closure never setting done. *)
poll_events_never(batch) == FALSE

(* The closure setting done on every event. *)
poll_events_any_event(batch) == batch # <<>>

(* done unless some event is not a close request. *)
poll_events_all_close(batch) == \A k \in 1..Len(batch) : batch[k] = "CloseRequested"

poll_events(batch) == PollFrom(batch, FALSE)

CountCloses(batch) == Cardinality({k \in 1..Len(batch) : batch[k] = "CloseRequested"})

(* One iteration of the loop of main_loop; its return ends main(), which drops app. *)
main_loop ==
  /\ pc = "main_loop"
  /\ pollSteps < MaxPolls
  /\ \E batch \in SeqUpTo(EventKinds, MaxBatch) :
       LET done == poll_events(batch)
       IN /\ pollSteps' = pollSteps + 1
          /\ eventsSeen' = eventsSeen + Len(batch)
          /\ closesSeen' = closesSeen + CountCloses(batch)
          /\ loopState' = IF done THEN "Closing" ELSE loopState
          /\ pc' = IF done THEN "drop" ELSE "main_loop"
  /\ UNCHANGED <<Build, instance, debug_callback, callbackReply,
                 physical_device_index, device, graphics_queue, events_loop, window, arcs,
                 released, dropped, output, messages, scans, calls, panic>>

Min(a, b) == IF a <= b THEN a ELSE b

(* The iterations after the first MaxPolls: the same step of the loop, with *)
(* the counters of polls and events held at their caps.                     *)
main_loop_uncounted ==
  /\ pc = "main_loop"
  /\ pollSteps = MaxPolls
  /\ \E batch \in SeqUpTo(EventKinds, MaxBatch) :
       LET done == poll_events(batch)
       IN /\ eventsSeen' = Min(eventsSeen + Len(batch), MaxPolls * MaxBatch)
          /\ closesSeen' = Min(closesSeen + CountCloses(batch), MaxPolls * MaxBatch)
          /\ loopState' = IF done THEN "Closing" ELSE loopState
          /\ pc' = IF done THEN "drop" ELSE "main_loop"
  /\ UNCHANGED <<Build, instance, debug_callback, callbackReply,
                 physical_device_index, device, graphics_queue, events_loop, window, arcs,
                 released, dropped, pollSteps, output, messages, scans, calls, panic>>

(* The drop of app at the end of main, one field at a time. *)
drop_field ==
  /\ pc = "drop"
  /\ dropped < Len(FieldOrder)
  /\ LET st == DropField([arcs |-> arcs, released |-> released], FieldOrder[dropped + 1])
     IN /\ arcs' = st.arcs
        /\ released' = st.released
  /\ dropped' = dropped + 1
  /\ pc' = IF dropped + 1 = Len(FieldOrder) THEN "done" ELSE "drop"
  /\ UNCHANGED <<Build, instance, debug_callback, callbackReply,
                 physical_device_index, device, graphics_queue, events_loop, window, loopState,
                 pollSteps, eventsSeen, closesSeen, output, messages, scans, calls, panic>>

(* The driver emits a message of some kind while the instance lives; the *)
(* registered callback, if any, prints those its msg_types select.       *)
Released(what) == \E k \in 1..Len(released) : released[k] = what

CallbackLive == IsSome(debug_callback) /\ ~Released("DebugCallback")

InstanceLive == IsSome(instance) /\ ~Released("Instance")

driver_message ==
  /\ InstanceLive
  /\ messages < MaxMessages
  /\ \E kind \in MessageKinds :
       output' = IF CallbackLive /\ Unwrap(debug_callback).msg_types[kind]
                 THEN Append(output, "validation layer") ELSE output
  /\ messages' = messages + 1
  /\ UNCHANGED <<Build, pc, instance, callbackReply,
                 debug_callback, physical_device_index, device, graphics_queue, events_loop,
                 window, arcs, released, dropped, loopState, pollSteps, eventsSeen, closesSeen,
                 scans, calls, panic>>

Next ==
  \/ init_instance
  \/ setup_debug_callback
  \/ get_physical_device_index
  \/ create_logical_device
  \/ init_window
  \/ main_loop
  \/ drop_field
  \/ driver_message

Spec == Init /\ [][Next]_vars

(* Start-up through the logical device, over the larger enumerations. *)
NextDevices ==
  \/ init_instance
  \/ setup_debug_callback
  \/ get_physical_device_index
  \/ create_logical_device

SpecDevices == InitDevices /\ [][NextDevices]_vars

(* The whole run with a loop that may go on for ever. The thread of main    *)
(* keeps running, so the loop keeps polling and the drop of app, once        *)
(* begun, goes through; the platform delivers a close request at some poll. *)
PollStep == main_loop \/ main_loop_uncounted

CloseDelivered == PollStep /\ closesSeen' > closesSeen

InitLive == InitWith(BOOLEAN, {KnownLayers}, Devices(RunDevices, RunFamilies))

NextLive ==
  \/ Next
  \/ main_loop_uncounted

SpecLive ==
  /\ InitLive
  /\ [][NextLive]_vars
  /\ WF_vars(PollStep)
  /\ SF_vars(CloseDelivered)
  /\ WF_vars(drop_field)

(* ================================================================ claims *)
HasGraphics(families) == \E k \in 1..Len(families) : families[k]

SuitableDevices == {i \in 0..(Len(devices) - 1) : HasGraphics(devices[i + 1])}

Entered(stage) == calls[stage] > 0

PanickedIn(stage) == IsSome(panic) /\ Unwrap(panic).stage = stage

Printed(line) == \E k \in 1..Len(output) : output[k] = line

Position(what) == CHOOSE k \in 1..Len(released) : released[k] = what

(* C1: selection returns the enumeration index of the first device, in       *)
(* enumeration order, that has a graphics-capable queue family: the device   *)
(* returned has one, no device before it has one, and selection returns an   *)
(* index whenever some device has one.                                       *)
C1_FirstSuitableSelected ==
  /\ IsSome(physical_device_index) =>
       LET i == Unwrap(physical_device_index)
       IN /\ i \in SuitableDevices
          /\ \A j \in SuitableDevices : i <= j
  /\ (Entered("get_physical_device_index") /\ SuitableDevices # {}) =>
       IsSome(physical_device_index)

C1_Witness ==
  /\ Len(devices) = 3
  /\ SuitableDevices = {1, 2}
  /\ physical_device_index = Some(1)

(* C2: when no enumerated device is suitable, zero devices included,        *)
(* selection panics with its no-suitable-device message and returns no      *)
(* index; no logical device, queue, event loop or window is created and the *)
(* poll loop never starts.                                                  *)
C2_NoSuitableDeviceFails ==
  (Entered("get_physical_device_index") /\ SuitableDevices = {}) =>
    /\ pc = "panicked"
    /\ PanickedIn("get_physical_device_index")
    /\ Unwrap(panic).msg = "failed to find a suitable GPU!"
    /\ physical_device_index = None
    /\ device = None /\ graphics_queue = None /\ events_loop = None
    /\ window = "none"
    /\ ~Entered("create_logical_device") /\ ~Entered("init_window")
    /\ loopState = "NotStarted" /\ pollSteps = 0

C2_Witness ==
  /\ Len(devices) = 0
  /\ PanickedIn("get_physical_device_index")

(* C3: with validation enabled and a requested layer missing from the       *)
(* driver's list, init_instance creates the instance with no layer enabled: *)
(* it ends with an instance without layers, or with a panic that is not the *)
(* driver refusing a layer.                                                 *)
LayerFallback == ENABLE_VALIDATION_LAYERS /\ ~(VALIDATION_LAYERS \subseteq availableLayers)

C3_FallbackWithoutLayers ==
  (LayerFallback /\ Entered("init_instance")) =>
    /\ IsSome(instance) \/ PanickedIn("init_instance")
    /\ IsSome(instance) => Unwrap(instance).layers = {}
    /\ PanickedIn("init_instance") =>
         Unwrap(panic).err \in {"LoadingError", "LayersListError", "InitializationFailed"}

C3_Witness ==
  /\ LayerFallback
  /\ IsSome(instance) /\ Unwrap(instance).layers = {}
  /\ pc = "main_loop"

(* C4: the loop goes from Running to Closing in the poll step that sees the *)
(* first close-request event and in no other step; once Closing it stays    *)
(* Closing and no further poll step runs.                                   *)
C4_ClosingOnceAndTerminal ==
  /\ [](loopState = "Closing" <=> (closesSeen > 0))
  /\ [][/\ loopState = "Closing" => (loopState' = "Closing" /\ pollSteps' = pollSteps)
        /\ loopState' # loopState =>
             \/ loopState = "NotStarted" /\ loopState' = "Running"
             \/ loopState = "Running" /\ loopState' = "Closing"
                  /\ closesSeen = 0 /\ closesSeen' > 0
                  /\ pollSteps' = pollSteps + 1
        /\ (loopState = "Running" /\ closesSeen' > closesSeen) => loopState' = "Closing"]_vars

C4_Witness ==
  /\ loopState = "Closing"
  /\ pollSteps = 2
  /\ closesSeen = 1
  /\ eventsSeen = 4

(* C5: in the drop of a fully constructed application the queue and the     *)
(* logical device are destroyed before the instance, and so is the debug    *)
(* callback when there is one; at the end of the drop all are destroyed.    *)
C5_DeviceAndCallbackBeforeInstance ==
  (pc \in {"drop", "done"}) =>
    /\ Released("Instance") =>
         /\ Released("Queue") /\ Position("Queue") < Position("Instance")
         /\ Released("Device") /\ Position("Device") < Position("Instance")
         /\ IsSome(debug_callback) =>
              (Released("DebugCallback") /\ Position("DebugCallback") < Position("Instance"))
    /\ pc = "done" => Released("Instance")

C5_Witness ==
  /\ pc = "done"
  /\ IsSome(debug_callback)
  /\ Released("Instance") /\ Released("Device") /\ Released("DebugCallback")

(* C6: a failure of instance creation, of device selection or of            *)
(* logical-device creation ends the run in that stage: no later stage is    *)
(* entered, the poll loop never starts, nothing happens afterwards, and no  *)
(* stage is ever entered twice.                                             *)
FatalStages == {"init_instance", "get_physical_device_index", "create_logical_device"}

C6_FailureIsFatal ==
  /\ [](\A s \in FatalStages :
          PanickedIn(s) =>
            /\ pc = "panicked"
            /\ calls[s] = 1
            /\ \A k \in 1..Len(Stages) : k > StageNo(s) => calls[Stages[k]] = 0
            /\ events_loop = None /\ loopState = "NotStarted" /\ pollSteps = 0)
  /\ [](\A k \in 1..Len(Stages) : calls[Stages[k]] <= 1)
  /\ [][IsSome(panic) => FALSE]_vars

C6_Witness ==
  /\ PanickedIn("create_logical_device")
  /\ Unwrap(panic).err = "DeviceCreationError"

(* C7: with the debug flag off setup_debug_callback returns None without    *)
(* asking the driver, and no message of the driver is ever printed by a     *)
(* callback.                                                                *)
C7_NoCallbackWithoutDebugFlag ==
  ~ENABLE_VALIDATION_LAYERS =>
    /\ debug_callback = None
    /\ callbackReply = "not_asked"
    /\ ~Released("DebugCallback")
    /\ ~Printed("validation layer")

C7_Witness ==
  /\ ~ENABLE_VALIDATION_LAYERS
  /\ Entered("setup_debug_callback")
  /\ messages > 0
  /\ pc = "main_loop"

(* C8: with the debug flag on and the registration rejected by the driver,  *)
(* setup_debug_callback returns None and start-up goes on to device         *)
(* selection: the rejection causes no panic, and no callback ever prints.   *)
C8_RejectionIsNotFatal ==
  /\ [](callbackReply = "rejected" =>
          /\ ENABLE_VALIDATION_LAYERS
          /\ debug_callback = None
          /\ ~PanickedIn("setup_debug_callback")
          /\ ~Printed("validation layer"))
  /\ [][(pc = "setup_debug_callback" /\ callbackReply' = "rejected") =>
          /\ pc' = "get_physical_device_index"
          /\ panic' = None
          /\ <<arcs, released>>' = <<arcs, released>>]_vars

C8_Witness ==
  /\ callbackReply = "rejected"
  /\ IsSome(device) /\ IsSome(graphics_queue) /\ IsSome(events_loop)
  /\ pc = "main_loop"

(* C9, as stated: wherever validation is disabled or the requested layers   *)
(* are unsupported, no debug callback registration is held.                 *)
C9_Original ==
  (~ENABLE_VALIDATION_LAYERS \/ ~check_validation_layer_support(availableLayers)) =>
    debug_callback = None

(* C9, amended: a debug callback registration is held exactly when          *)
(* validation is enabled and the driver accepted the registration, whether  *)
(* or not the requested layers are supported.                               *)
C9_HandleIffEnabledAndAccepted ==
  IsSome(debug_callback) <=> (ENABLE_VALIDATION_LAYERS /\ callbackReply = "accepted")

C9_Witness ==
  /\ LayerFallback
  /\ IsSome(instance) /\ Unwrap(instance).layers = {}
  /\ IsSome(debug_callback)

(* C10: every scan examines the families in index order from 0, is          *)
(* incomplete exactly while no graphics-capable family has been examined,   *)
(* records the index of the first graphics-capable family and examines      *)
(* nothing after it; without such a family it examines them all.            *)
ScanInOrder(families, scan) ==
  LET tr == scan.trace
  IN /\ Len(tr) <= Len(families)
     /\ \A j \in 1..Len(tr) :
          /\ tr[j].i = j - 1
          /\ (tr[j].graphics_family = NOT_INITIALIZED) <=> (\A m \in 1..j : ~families[m])
          /\ tr[j].graphics_family # NOT_INITIALIZED =>
               /\ j = Len(tr)
               /\ tr[j].graphics_family = j - 1
               /\ families[j]
     /\ scan.graphics_family = IF tr = <<>> THEN NOT_INITIALIZED
                               ELSE tr[Len(tr)].graphics_family
     /\ scan.graphics_family = NOT_INITIALIZED => Len(tr) = Len(families)

C10_ScanStopsAtFirstGraphicsFamily ==
  \A k \in 1..Len(scans) : ScanInOrder(devices[scans[k].device + 1], scans[k])

C10_Witness ==
  \E k \in 1..Len(scans) :
    /\ devices[scans[k].device + 1] = <<TRUE, TRUE>>
    /\ scans[k].graphics_family = 0
    /\ Len(scans[k].trace) = 1

(* The least index of a graphics-capable family of a device, 0-based. *)
FirstGraphicsFamily(families) ==
  CHOOSE g \in 0..(Len(families) - 1) :
    /\ families[g + 1]
    /\ \A m \in 0..(g - 1) : ~families[m + 1]

(* C11: the logical device is built on the device found again from the      *)
(* index that selection returned, and its queue comes from that device's    *)
(* first graphics-capable family: the scan made for the build is a scan of  *)
(* the selected device, and device and queue name that device and family.   *)
C11_BuiltOnSelectedDeviceAndFirstFamily ==
  /\ \A k \in 1..Len(scans) :
       scans[k].stage = "create_logical_device" =>
         /\ IsSome(physical_device_index)
         /\ scans[k].device = Unwrap(physical_device_index)
  /\ IsSome(device) =>
       LET i == Unwrap(physical_device_index)
       IN /\ Unwrap(device).physical_device = i
          /\ i \in SuitableDevices /\ \A j \in SuitableDevices : i <= j
          /\ Unwrap(device).queue_family = FirstGraphicsFamily(devices[i + 1])
          /\ IsSome(graphics_queue)
          /\ Unwrap(graphics_queue).family = FirstGraphicsFamily(devices[i + 1])

C11_Witness ==
  /\ Len(devices) = 3
  /\ SuitableDevices = {2}
  /\ devices[3] = <<FALSE, TRUE>>
  /\ physical_device_index = Some(2)
  /\ IsSome(device) /\ Unwrap(device).physical_device = 2
  /\ IsSome(graphics_queue) /\ Unwrap(graphics_queue).family = 1

(* What a start-up stage leaves behind when it has returned. *)
Acquired(stage) ==
  CASE stage = "init_instance" -> IsSome(instance)
    [] stage = "setup_debug_callback" -> ENABLE_VALIDATION_LAYERS => callbackReply # "not_asked"
    [] stage = "get_physical_device_index" -> IsSome(physical_device_index)
    [] stage = "create_logical_device" -> IsSome(device) /\ IsSome(graphics_queue)
    [] stage = "init_window" -> IsSome(events_loop)

LoopStarted == pc \in {"main_loop", "drop", "done"} \/ pollSteps > 0 \/ loopState # "NotStarted"

(* C13: resources are acquired in the order instance, diagnostics,          *)
(* physical-device selection, logical device and queue, window: no stage is *)
(* entered twice, a stage is entered only when every stage before it has    *)
(* been entered once and has returned its resource, the stage main() stands *)
(* at has not been entered yet, and the poll loop starts only when all five *)
(* stages have been entered once and have returned.                         *)
C13_AcquisitionOrder ==
  /\ \A k \in 1..Len(Stages) : calls[Stages[k]] <= 1
  /\ \A k \in 2..Len(Stages) :
       Entered(Stages[k]) =>
         \A j \in 1..(k - 1) : calls[Stages[j]] = 1 /\ Acquired(Stages[j])
  /\ \A k \in 1..Len(Stages) :
       pc = Stages[k] =>
         /\ \A j \in 1..(k - 1) : calls[Stages[j]] = 1 /\ Acquired(Stages[j])
         /\ \A j \in k..Len(Stages) : calls[Stages[j]] = 0
  /\ LoopStarted =>
       \A k \in 1..Len(Stages) : calls[Stages[k]] = 1 /\ Acquired(Stages[k])

C13_Witness ==
  /\ pc = "main_loop"
  /\ pollSteps = 1
  /\ \A k \in 1..Len(Stages) : calls[Stages[k]] = 1 /\ Acquired(Stages[k])

(* C14: once initialised the application polls until a poll returns the     *)
(* close signal: a poll that saw no close request leaves main() in the      *)
(* loop, the loop is left only by a poll that saw a close request, and when *)
(* polls are scheduled fairly and the platform eventually delivers a close  *)
(* request the loop ends and the drop of the application value completes.   *)
C14_LoopEndsOnCloseOnly ==
  /\ [][pc = "main_loop" =>
          /\ closesSeen' = closesSeen => pc' = "main_loop" /\ loopState' = loopState
          /\ pc' # "main_loop" =>
               closesSeen' > closesSeen /\ pc' = "drop" /\ loopState' = "Closing"]_vars
  /\ [](pc \in {"drop", "done"} => closesSeen > 0)
  /\ (pc = "main_loop" ~> loopState = "Closing")
  /\ (loopState = "Closing" ~> (pc = "done" /\ dropped = Len(FieldOrder)))

C14_Witness ==
  /\ pc = "done"
  /\ pollSteps = MaxPolls
  /\ eventsSeen = MaxPolls * MaxBatch
  /\ closesSeen = 1
  /\ dropped = Len(FieldOrder)

(* C15 (as stated): in every state in which the loop is Running the window  *)
(* opened at start-up still exists; it is released only after the close     *)
(* signal, never at the end of window initialisation.                       *)
C15_WindowOpenWhileRunning ==
  /\ loopState = "Running" => window = "open"
  /\ Released("Window") => loopState = "Closing"

(* A poll of main_loop that has been counted. *)
Polled == pc = "main_loop" /\ pollSteps' = pollSteps + 1

(* C16: a poll step whose batch holds no close request changes nothing: the *)
(* loop stays Running, main() stays in the loop, and instance, diagnostics  *)
(* handle, selected index, logical device, queue, event source, reference   *)
(* counts, released objects and output are unchanged; the step returns the  *)
(* close signal exactly when the batch holds a close request.               *)
C16_NonClosePollChangesNothing ==
  [][Polled =>
       /\ closesSeen' = closesSeen =>
            /\ loopState = "Running" /\ loopState' = "Running" /\ pc' = "main_loop"
            /\ UNCHANGED <<instance, debug_callback, physical_device_index, device,
                           graphics_queue, events_loop, window, arcs, released, dropped,
                           output, panic>>
       /\ (loopState' = "Closing") <=> (closesSeen' > closesSeen)
       /\ (pc' = "drop") <=> (closesSeen' > closesSeen)]_vars

C16_Witness ==
  /\ pc = "main_loop" /\ loopState = "Running"
  /\ pollSteps = 1 /\ eventsSeen = MaxBatch /\ closesSeen = 0

PrintedLines == {"Supported extension", "Using device", "validation layer"}

(* C18 (as stated): whenever the instance was created without layers        *)
(* although validation is enabled, a fallback notice has been printed by    *)
(* the time start-up goes on.                                               *)
C18_FallbackIsAnnounced ==
  (LayerFallback /\ IsSome(instance) /\ Entered("setup_debug_callback")) =>
    \E k \in 1..Len(output) : output[k] \notin PrintedLines

(* The scans of find_queue_families made by create_logical_device. *)
BuildScans == {k \in 1..Len(scans) : scans[k].stage = "create_logical_device"}

(* C19: the graphics family index that create_logical_device derives again  *)
(* for the selected device is not the sentinel -1, lies within              *)
(* 0..(family count - 1), names a graphics-capable family and is unchanged  *)
(* by the conversion to usize, so the lookup of the family never fails.     *)
C19_RederivedFamilyIsValid ==
  /\ \A k \in BuildScans :
       LET g == scans[k].graphics_family
           families == devices[scans[k].device + 1]
       IN /\ g # NOT_INITIALIZED
          /\ g \in 0..(Len(families) - 1)
          /\ AsUsize(g) = g
          /\ families[g + 1]
          /\ IsSome(get_graphics_family_from_physical_device(families))
  /\ PanickedIn("create_logical_device") =>
       Unwrap(panic).msg # "called Option::unwrap() on a None value"
  /\ IsSome(device) =>
       /\ BuildScans # {}
       /\ \A k \in BuildScans : Unwrap(device).queue_family = scans[k].graphics_family

C19_Witness ==
  /\ \E k \in BuildScans : scans[k].graphics_family = 1 /\ scans[k].device = 1
  /\ Len(devices) = 2
  /\ IsSome(device) /\ Unwrap(device).queue_family = 1

====
